---- MODULE Spec2Model ----
(***************************************************************************)
(* On-chain payment verification and booking-state reconciliation of the   *)
(* DeDen booking application: verifyPayment, checkExpiredBookings and      *)
(* retryFailedVerification (lib/verification.ts) together with the HTTP    *)
(* handlers that read and write the same Booking / ActivityLog tables      *)
(* (submit-payment, approve, check-expiry).                                *)
(*                                                                         *)
(* Every await on the database is one step of a task, so that the steps of *)
(* concurrent requests interleave exactly where the Node event loop lets   *)
(* them interleave.  Code between two database awaits (configuration       *)
(* lookup, the ledger reads, the synchronous part of the log scan) only    *)
(* reads immutable data and is folded into the step that follows it.       *)
(***************************************************************************)
EXTENDS Integers, Sequences, FiniteSets, TLC

VARIABLES
    bookings,      \* Booking table: bookingId -> row
    activityLog,   \* ActivityLog table, in insertion order (append-only)
    ledger,        \* the chain: txHash -> receipt, once the transaction is mined
    now,           \* wall clock (new Date())
    tasks,         \* the requests / background runs of the Node process
    statusWrites   \* history: status writes of verifyPayment / checkExpiredBookings

vars == <<bookings, activityLog, ledger, now, tasks, statusWrites>>

----------------------------------------------------------------------------
(* Bounds of the model *)

\* number of requests (handler invocations) a behaviour may hold
MaxTasks == 2
\* the clock runs 0..MaxTime
MaxTime == 2
\* a receipt holds at most MaxLogs logs
MaxLogs == 2

----------------------------------------------------------------------------
(* Values *)

NULL == "null"
NoInt == 0            \* a nullable numeric column that is null (JS: falsy)

Bookings == {"B1"}
TxHashes == {"h1", "h2"}
TaskIds == 1..MaxTasks

\* prisma enum BookingStatus
WAITLISTED == "WAITLISTED"
PENDING == "PENDING"
CONFIRMED == "CONFIRMED"
FAILED == "FAILED"
EXPIRED == "EXPIRED"
CANCELLED == "CANCELLED"

USDC == "USDC"
USDT == "USDT"
PaymentTokens == {USDC, USDT}

----------------------------------------------------------------------------
(* Chain registry: lib/config.ts *)

ARBITRUM == 42161
BSC == 56
BASE == 8453
MANTLE_SEPOLIA == 5003
BSC_TESTNET == 97      \* the chain approve writes; not in chainConfig

SUPPORTED_CHAINS == {ARBITRUM, BSC, BASE, MANTLE_SEPOLIA}

\* An address is <<identity, spelling>>; the spelling is "mixed" for the
\* EIP-55 checksummed form and "lower" for the all-lowercase form.
Addr(id) == <<id, "mixed">>
ToLowerCase(a) == <<a[1], "lower">>

treasuryAddress == Addr("treasury")

\* `undefined`: the chain or the token is not configured
NoTokenInfo == [address |-> <<NULL, NULL>>, decimals |-> 0]

\* chainConfig[chainId]?.tokens[symbol]
TokenInfo(chainId, symbol) ==
    CASE chainId = ARBITRUM /\ symbol = USDC ->
            [address |-> Addr("arb-usdc"), decimals |-> 6]
      [] chainId = ARBITRUM /\ symbol = USDT ->
            [address |-> Addr("arb-usdt"), decimals |-> 6]
      [] chainId = BSC /\ symbol = USDC ->
            [address |-> Addr("bsc-usdc"), decimals |-> 18]
      [] chainId = BSC /\ symbol = USDT ->
            [address |-> Addr("bsc-usdt"), decimals |-> 18]
      [] chainId = BASE /\ symbol = USDC ->
            [address |-> Addr("base-usdc"), decimals |-> 6]
      [] chainId = MANTLE_SEPOLIA /\ symbol = USDC ->
            [address |-> Addr("mnt-usdc"), decimals |-> 6]
      [] chainId = MANTLE_SEPOLIA /\ symbol = USDT ->
            [address |-> Addr("mnt-usdt"), decimals |-> 6]
      [] OTHER -> NoTokenInfo

ChainName(chainId) ==
    CASE chainId = ARBITRUM -> "Arbitrum One"
      [] chainId = BSC -> "BNB Smart Chain"
      [] chainId = BASE -> "Base"
      [] chainId = MANTLE_SEPOLIA -> "Mantle Sepolia"
      [] OTHER -> NULL

----------------------------------------------------------------------------
(* Base-unit amounts.  A base-unit amount is a decimal integer string; it  *)
(* is held as <<m, z>>, the digits of m followed by z zeros, with m not a  *)
(* multiple of ten, so that equal strings are equal values.                *)

RECURSIVE Canon(_, _)
Canon(m, z) ==
    IF m = 0 THEN <<0, 0>>
    ELSE IF m % 10 = 0 THEN Canon(m \div 10, z + 1)
    ELSE <<m, z>>

\* ethers.parseUnits(amount.toString(), decimals).toString(), whole amounts
ParseUnits(amount, decimals) == Canon(amount, decimals)

----------------------------------------------------------------------------
(* Rows *)

NoTime == -1
NoAddr == <<NULL, NULL>>
NoAmount == <<-1, 0>>

\* a Booking row as the application intake leaves it
NewBooking ==
    [status |-> WAITLISTED,
     paymentToken |-> NULL, paymentAmount |-> NoInt, amountBaseUnits |-> NoAmount,
     expiresAt |-> NoTime, chain |-> NULL, chainId |-> NoInt,
     txHash |-> NULL, blockNumber |-> NoInt,
     senderAddress |-> NoAddr, receiverAddress |-> NoAddr,
     confirmedAt |-> NoTime]

\* the result of findUnique when no row is loaded
NoRow == [NewBooking EXCEPT !.status = NULL]

\* booking.user.email
UserEmail(b) == IF b = "B1" THEN "guest@example.org" ELSE NULL

\* booking.stay.priceUSDC
StayPriceUSDC(b) == 300

\* an ActivityLog row
Entry(b, action, txHash, error) ==
    [bookingId |-> b, action |-> action, txHash |-> txHash, error |-> error]

RECURSIVE CountSeq(_, _, _)
CountSeq(log, b, action) ==
    IF log = <<>> THEN 0
    ELSE (IF Head(log).bookingId = b /\ Head(log).action = action THEN 1 ELSE 0)
         + CountSeq(Tail(log), b, action)

\* number of ActivityLog rows of a booking with an action tag
Count(b, action) == CountSeq(activityLog, b, action)

----------------------------------------------------------------------------
(* The ledger: receipts and their logs *)

Payer == Addr("payer")
Stranger == Addr("stranger")

\* the whole-unit amounts a booking is approved for
Amounts == {300}
\* values a Transfer log may carry
LogValues == {ParseUnits(300, 6), ParseUnits(299, 6)}

\* a raw log; isTransfer: whether it decodes as Transfer(from, to, value)
TransferLog(address, from, to, value) ==
    [address |-> address, isTransfer |-> TRUE,
     from |-> from, to |-> to, value |-> value]
OtherLog(address) ==
    [address |-> address, isTransfer |-> FALSE,
     from |-> NoAddr, to |-> NoAddr, value |-> NoAmount]

GoodLog == TransferLog(Addr("arb-usdc"), Payer, treasuryAddress, ParseUnits(300, 6))
ShortLog == TransferLog(Addr("arb-usdc"), Payer, treasuryAddress, ParseUnits(299, 6))

\* the logs a receipt is built from: transfers of either token contract,
\* the same token contract spelled in lower case, and an event that is not
\* a Transfer
AllLogs ==
    {TransferLog(a, f, t, v) :
        a \in {Addr("arb-usdc"), Addr("arb-usdt")}, f \in {Payer, Stranger},
        t \in {treasuryAddress, Stranger}, v \in LogValues}
    \cup {[l EXCEPT !.address = ToLowerCase(@)] : l \in {GoodLog, ShortLog}}
    \cup {OtherLog(Addr("arb-usdc"))}

Receipt(status, logs) == [status |-> status, blockNumber |-> 7, logs |-> logs]

\* a transaction that is not mined yet has no receipt
Unmined == [status |-> -1, blockNumber |-> NoInt, logs |-> <<>>]

LogSeqs == UNION {[1..n -> AllLogs] : n \in 0..MaxLogs}

\* the receipts a transaction may be mined with: any logs when it
\* succeeded; a reverted one, with no log or with a transfer
AllReceipts ==
    {Receipt(1, logs) : logs \in LogSeqs}
    \cup {Receipt(0, <<>>), Receipt(0, <<GoodLog>>)}

\* the receipt the provider can answer with for a transaction: the one it
\* was mined with, or any while it is not mined
Mined(txHash) ==
    IF ledger[txHash] = Unmined THEN AllReceipts ELSE {ledger[txHash]}

----------------------------------------------------------------------------
(* Tasks.  A task is one invocation of a handler or exported function.     *)
(* pc names the database (or ledger) await the task is suspended at.       *)

IdleTask ==
    [op |-> "idle", pc |-> "idle",
     bookingId |-> NULL, txHash |-> NULL, chainId |-> NoInt,
     loaded |-> NULL,            \* booking.status as verifyPayment loaded it
     paymentToken |-> NULL, paymentAmount |-> NoInt,   \* the loaded booking's
     time |-> NoTime,            \* a timestamp the handler computed
     provider |-> NULL,          \* what the chain provider answered
     idx |-> 0,                  \* position of `log` in receipt.logs
     paymentFound |-> FALSE,
     error |-> NULL,             \* message of the error caught / thrown
     result |-> NULL,            \* "returned" or "threw", once finished
     response |-> 0,             \* HTTP status sent, 0 while none
     notify |-> NULL,            \* confirmation e-mail: "sent" or "failed"
     storeFailed |-> FALSE,      \* a database write of the task threw
     queue |-> <<>>]             \* bookings still to process in a batch

\* a task that starts handler op
NewTask(op, pc, b) == [IdleTask EXCEPT !.op = op, !.pc = pc, !.bookingId = b]

\* the task has run to its end; its locals are dead
Finished(task, result, error) ==
    [task EXCEPT !.pc = "done", !.result = result, !.error = error,
                 !.idx = 0, !.paymentFound = FALSE, !.queue = <<>>,
                 !.paymentToken = NULL, !.paymentAmount = NoInt, !.time = NoTime]

\* an HTTP handler has sent its response and ended
Responded(task, code) ==
    [Finished(task, "returned", NULL) EXCEPT !.response = code]

\* a slot can take a new task when it holds none that is still running
CanStart(t) == tasks[t].pc \in {"idle", "done"}

\* slots are taken in order and each is used once
Fresh(t) ==
    /\ tasks[t].op = "idle"
    /\ \A u \in TaskIds : u < t => tasks[u].op # "idle"

\* no request is in flight
Quiescent == \A t \in TaskIds : tasks[t].pc \in {"idle", "done"}

\* db.booking.findUnique({ where: { bookingId } })
FindUnique(b) == IF b \in DOMAIN bookings THEN bookings[b] ELSE NoRow

\* a row of the history variable
NoWrites == [s \in {CONFIRMED, FAILED, EXPIRED} |-> 0]

----------------------------------------------------------------------------
(* verifyPayment: lib/verification.ts 19-271 *)

ErrNotFound == "Booking not found"
ErrNoDetails == "Booking does not have payment details set"
ErrConfig == "Invalid config for chain or currency"
ErrTxNotFound == "Transaction not found (yet)."
ErrNoReceipt == "Transaction receipt not found."
ErrReverted == "Transaction failed (reverted on-chain)."
ErrAmountMismatch == "Amount mismatch"
ErrNoTransfer == "No valid ERC-20 Transfer event found in transaction."
\* what a failing database call throws
ErrStore == "store error"

\* a plausible slip of the loop body: the emitting contract is not checked
ScanLogAnyContract(log, tokenInfo, expectedAmount) ==
    IF ~log.isTransfer THEN "continue"
    ELSE IF ToLowerCase(log.to) # ToLowerCase(treasuryAddress) THEN "continue"
    ELSE IF log.value # expectedAmount THEN "throw"
    ELSE "match"

\* the body of the for loop for one log, up to the database commit
\* (lines 123-144): "continue", "throw" (Amount mismatch) or "match"
ScanLog(log, tokenInfo, expectedAmount) ==
    IF ToLowerCase(log.address) # ToLowerCase(tokenInfo.address) THEN "continue"
    ELSE IF ~log.isTransfer THEN "continue"
    ELSE IF ToLowerCase(log.to) # ToLowerCase(treasuryAddress) THEN "continue"
    ELSE IF log.value # expectedAmount THEN "throw"
    ELSE "match"

\* the catch of the try that wraps the loop body (lines 223-225): whatever
\* was thrown inside it, the loop goes on with the next log
InnerCatch(outcome) == IF outcome = "throw" THEN "continue" ELSE outcome

\* a plausible slip of the loop: it does not stop at the first match, so
\* that the last matching log is the one committed
ScanFromLast(logs, i, tokenInfo, expectedAmount) ==
    LET matches == {k \in i..Len(logs) :
                       ScanLog(logs[k], tokenInfo, expectedAmount) = "match"}
    IN  IF matches = {} THEN 0
        ELSE CHOOSE k \in matches : \A j \in matches : j <= k

\* The loop run from log i on, up to its next await: the index of the log
\* at which it reaches db.$transaction, 0 when it runs off the end of
\* receipt.logs, -1 when an error leaves the loop.
RECURSIVE ScanFrom(_, _, _, _)
ScanFrom(logs, i, tokenInfo, expectedAmount) ==
    IF i > Len(logs) THEN 0
    ELSE LET o == InnerCatch(ScanLog(logs[i], tokenInfo, expectedAmount))
         IN  IF o = "match" THEN i
             ELSE IF o = "throw" THEN -1
             ELSE ScanFrom(logs, i + 1, tokenInfo, expectedAmount)

\* expectedAmount of a run (lines 84-95)
ExpectedAmount(task) ==
    ParseUnits(task.paymentAmount,
               TokenInfo(task.chainId, task.paymentToken).decimals)

\* the throw of the outer try reaches the catch at line 232 with `booking`
\* loaded: the FAILED commit is next
ToCatch(task, error) ==
    [task EXCEPT !.pc = "vfy_fail", !.error = error, !.idx = 0]

\* a plausible slip of the status guard: only CONFIRMED short-circuits
AlreadyProcessedConfirmedOnly(row) == row.status = CONFIRMED

\* the status guard of line 74: the booking is already processed
AlreadyProcessed(row) == row.status # PENDING

\* lines 47-95: load the booking, the status guard, the configuration
VfyLoad(t) ==
    /\ tasks[t].pc = "vfy_load"
    /\ LET task == tasks[t]
           row == FindUnique(task.bookingId)
           loaded == [task EXCEPT !.loaded = row.status,
                                  !.paymentToken = row.paymentToken,
                                  !.paymentAmount = row.paymentAmount]
       IN  tasks' = [tasks EXCEPT ![t] =
                IF row = NoRow THEN Finished(task, "threw", ErrNotFound)
                ELSE IF AlreadyProcessed(row) THEN Finished(loaded, "returned", NULL)
                ELSE IF row.paymentToken = NULL \/ row.paymentAmount = NoInt
                    THEN ToCatch(loaded, ErrNoDetails)
                ELSE IF TokenInfo(task.chainId, row.paymentToken) = NoTokenInfo
                    THEN ToCatch(loaded, ErrConfig)
                ELSE [loaded EXCEPT !.pc = "vfy_chain"]]
    /\ UNCHANGED <<bookings, activityLog, ledger, now, statusWrites>>

\* a plausible slip of the status test: success is taken for granted
RevertedNever(receipt) == FALSE

\* the receipt status test of line 112
Reverted(receipt) == receipt.status = 0

\* lines 100-144: getTransaction, tx.wait(3), the receipt status and the
\* log scan up to the first database commit.  avail is what the provider
\* answers: "ok" (the receipt), "notfound" (getTransaction gives null),
\* "noreceipt" (wait gives null) or "stall" (wait never resolves).
VfyChain(t, avail) ==
    /\ tasks[t].pc = "vfy_chain"
    /\ \E receipt \in Mined(tasks[t].txHash) :
       /\ ledger' = IF avail = "ok"
                    THEN [ledger EXCEPT ![tasks[t].txHash] = receipt]
                    ELSE ledger
       /\ LET task == [tasks[t] EXCEPT !.provider = avail]
              at == ScanFrom(receipt.logs, 1,
                             TokenInfo(task.chainId, task.paymentToken),
                             ExpectedAmount(task))
          IN  tasks' = [tasks EXCEPT ![t] =
                   IF avail = "notfound" THEN ToCatch(task, ErrTxNotFound)
                   ELSE IF avail = "stall" THEN [task EXCEPT !.pc = "vfy_wait"]
                   ELSE IF avail = "noreceipt" THEN ToCatch(task, ErrNoReceipt)
                   ELSE IF Reverted(receipt) THEN ToCatch(task, ErrReverted)
                   ELSE IF at > 0
                       THEN [task EXCEPT !.pc = "vfy_commit", !.idx = at,
                                         !.paymentFound = TRUE]
                   ELSE IF at = 0 THEN ToCatch(task, ErrNoTransfer)
                   ELSE ToCatch(task, ErrAmountMismatch)]
    /\ UNCHANGED <<bookings, activityLog, now, statusWrites>>

\* line 105: tx.wait(3) is called with no timeout and stays pending while
\* the transaction has fewer than 3 confirmations; it resolves only when
\* the chain has produced them, and the run goes on as in VfyChain
VfyWait(t, avail) ==
    /\ tasks[t].pc = "vfy_wait"
    /\ avail \in {"ok", "noreceipt"}
    /\ \E receipt \in Mined(tasks[t].txHash) :
       /\ ledger' = IF avail = "ok"
                    THEN [ledger EXCEPT ![tasks[t].txHash] = receipt]
                    ELSE ledger
       /\ LET task == [tasks[t] EXCEPT !.provider = avail]
              at == ScanFrom(receipt.logs, 1,
                             TokenInfo(task.chainId, task.paymentToken),
                             ExpectedAmount(task))
          IN  tasks' = [tasks EXCEPT ![t] =
                   IF avail = "noreceipt" THEN ToCatch(task, ErrNoReceipt)
                   ELSE IF Reverted(receipt) THEN ToCatch(task, ErrReverted)
                   ELSE IF at > 0
                       THEN [task EXCEPT !.pc = "vfy_commit", !.idx = at,
                                         !.paymentFound = TRUE]
                   ELSE IF at = 0 THEN ToCatch(task, ErrNoTransfer)
                   ELSE ToCatch(task, ErrAmountMismatch)]
    /\ UNCHANGED <<bookings, activityLog, now, statusWrites>>

\* a plausible slip of the CONFIRMED update: the sender is taken from the
\* receipt's first log instead of the matched one
ConfirmedRowFirstLog(row, task, log, receipt) ==
    [row EXCEPT !.status = CONFIRMED,
                !.confirmedAt = now,
                !.txHash = task.txHash,
                !.chain = ChainName(task.chainId),
                !.chainId = task.chainId,
                !.blockNumber = receipt.blockNumber,
                !.senderAddress = Head(receipt.logs).from,
                !.receiverAddress = log.to,
                !.amountBaseUnits = log.value]

\* the row written by the CONFIRMED update (lines 163-176)
ConfirmedRow(row, task, log, receipt) ==
    [row EXCEPT !.status = CONFIRMED,
                !.confirmedAt = now,
                !.txHash = task.txHash,
                !.chain = ChainName(task.chainId),
                !.chainId = task.chainId,
                !.blockNumber = receipt.blockNumber,
                !.senderAddress = log.from,
                !.receiverAddress = log.to,
                !.amountBaseUnits = log.value]

\* db.$transaction([booking.update, activityLog.create]) of lines 161-196:
\* both writes or, when the store fails (ok = FALSE), neither
CommitConfirmed(t, ok) ==
    LET task == tasks[t]
        b == task.bookingId
        receipt == ledger[task.txHash]
    IN  IF ok
        THEN /\ bookings' = [bookings EXCEPT ![b] =
                    ConfirmedRow(@, task, receipt.logs[task.idx], receipt)]
             /\ activityLog' = Append(activityLog,
                    Entry(b, "payment_confirmed", task.txHash, NULL))
             /\ statusWrites' = [statusWrites EXCEPT ![b][CONFIRMED] = @ + 1]
        ELSE UNCHANGED <<bookings, activityLog, statusWrites>>

\* a plausible slip of the e-mail step: a failed e-mail is not caught on
\* its own and ends the run in the catch of verifyPayment
VfyCommitMailFatal(t, ok, mail) ==
    /\ tasks[t].pc = "vfy_commit"
    /\ tasks[t].bookingId \in DOMAIN bookings
    /\ CommitConfirmed(t, ok)
    /\ LET task == tasks[t]
           sent == IF UserEmail(task.bookingId) = NULL THEN NULL ELSE mail
       IN  tasks' = [tasks EXCEPT ![t] =
                IF ok /\ sent = "failed"
                    THEN [ToCatch(task, "email error") EXCEPT !.notify = sent]
                ELSE IF ok
                    THEN [Finished(task, "returned", NULL) EXCEPT !.notify = sent]
                ELSE Finished([task EXCEPT !.storeFailed = TRUE], "returned", NULL)]
    /\ UNCHANGED <<ledger, now>>

\* a plausible slip of the loop: no break after the commit, so that the
\* scan goes on and a later matching log is committed as well
VfyCommitNoBreak(t, ok, mail) ==
    /\ tasks[t].pc = "vfy_commit"
    /\ tasks[t].bookingId \in DOMAIN bookings
    /\ CommitConfirmed(t, ok)
    /\ LET task == tasks[t]
           receipt == ledger[task.txHash]
           at == ScanFrom(receipt.logs, task.idx + 1,
                          TokenInfo(task.chainId, task.paymentToken),
                          ExpectedAmount(task))
           sent == IF UserEmail(task.bookingId) = NULL THEN NULL ELSE mail
           went == IF ok THEN [task EXCEPT !.notify = sent]
                   ELSE [task EXCEPT !.storeFailed = TRUE]
       IN  tasks' = [tasks EXCEPT ![t] =
                IF at > 0 THEN [went EXCEPT !.idx = at]
                ELSE Finished(went, "returned", NULL)]
    /\ UNCHANGED <<ledger, now>>

\* lines 161-226: the CONFIRMED commit, the confirmation e-mail and the
\* break; when the commit throws, the catch of the loop body resumes the
\* scan at the next log with paymentFound already set
VfyCommit(t, ok, mail) ==
    /\ tasks[t].pc = "vfy_commit"
    /\ tasks[t].bookingId \in DOMAIN bookings
    /\ CommitConfirmed(t, ok)
    /\ LET task == tasks[t]
           receipt == ledger[task.txHash]
           at == ScanFrom(receipt.logs, task.idx + 1,
                          TokenInfo(task.chainId, task.paymentToken),
                          ExpectedAmount(task))
           sent == IF UserEmail(task.bookingId) = NULL THEN NULL ELSE mail
           threw == [task EXCEPT !.storeFailed = TRUE]
       IN  tasks' = [tasks EXCEPT ![t] =
                IF ok
                    THEN [Finished(task, "returned", NULL) EXCEPT !.notify = sent]
                ELSE IF InnerCatch("throw") # "continue"
                    THEN ToCatch(threw, ErrStore)
                ELSE IF at > 0 THEN [threw EXCEPT !.idx = at]
                ELSE IF at = 0 THEN Finished(threw, "returned", NULL)
                ELSE ToCatch(threw, ErrAmountMismatch)]
    /\ UNCHANGED <<ledger, now>>

\* a plausible slip of the FAILED update: only the status is written
FailedRowStatusOnly(row, task) == [row EXCEPT !.status = FAILED]

\* the row written by the FAILED update (lines 239-246)
FailedRow(row, task) ==
    [row EXCEPT !.status = FAILED,
                !.txHash = task.txHash,
                !.chainId = task.chainId]

\* a plausible slip of the FAILED commit: two separate writes, so that a
\* store failure between them leaves the status without its entry
CommitFailedTorn(t, ok) ==
    LET task == tasks[t]
        b == task.bookingId
    IN  /\ bookings' = [bookings EXCEPT ![b] = FailedRow(@, task)]
        /\ statusWrites' = [statusWrites EXCEPT ![b][FAILED] = @ + 1]
        /\ activityLog' = IF ok
                          THEN Append(activityLog,
                                   Entry(b, "payment_failed", task.txHash, task.error))
                          ELSE activityLog

\* db.$transaction([booking.update, activityLog.create]) of lines 238-261
CommitFailed(t, ok) ==
    LET task == tasks[t]
        b == task.bookingId
    IN  IF ok
        THEN /\ bookings' = [bookings EXCEPT ![b] = FailedRow(@, task)]
             /\ activityLog' = Append(activityLog,
                    Entry(b, "payment_failed", task.txHash, task.error))
             /\ statusWrites' = [statusWrites EXCEPT ![b][FAILED] = @ + 1]
        ELSE UNCHANGED <<bookings, activityLog, statusWrites>>

\* a plausible slip of the catch: the error of the failed FAILED commit is
\* thrown in place of the verification error
VfyFailMasking(t, ok) ==
    /\ tasks[t].pc = "vfy_fail"
    /\ tasks[t].bookingId \in DOMAIN bookings
    /\ CommitFailed(t, ok)
    /\ tasks' = [tasks EXCEPT ![t] =
            Finished([@ EXCEPT !.storeFailed = @ \/ ~ok], "threw",
                     IF ok THEN @.error ELSE ErrStore)]
    /\ UNCHANGED <<ledger, now>>

\* lines 232-270: the catch: the FAILED commit (its own failure is only
\* logged), then the error is thrown again
VfyFail(t, ok) ==
    /\ tasks[t].pc = "vfy_fail"
    /\ tasks[t].bookingId \in DOMAIN bookings
    /\ CommitFailed(t, ok)
    /\ tasks' = [tasks EXCEPT ![t] =
            Finished([@ EXCEPT !.storeFailed = @ \/ ~ok], "threw", @.error)]
    /\ UNCHANGED <<ledger, now>>

\* a caller invokes the exported function: verifyPayment(bookingId, txHash,
\* chainId) (line 19); its first await is the findUnique
VerifyPayment(t, b, txHash, chainId) ==
    /\ CanStart(t)
    /\ tasks' = [tasks EXCEPT ![t] =
            [NewTask("verify", "vfy_load", b) EXCEPT
                !.txHash = txHash, !.chainId = chainId]]
    /\ UNCHANGED <<bookings, activityLog, ledger, now, statusWrites>>

----------------------------------------------------------------------------
(* POST /api/payments/submit-payment: app/api/payments/submit-payment/route.ts *)

\* a plausible slip of the validation: the status is not checked
SubmitPaymentAnyStatus(t, b, txHash, chainId) ==
    /\ CanStart(t)
    /\ LET row == FindUnique(b)
           task == [NewTask("submit", "sp_update", b) EXCEPT
                        !.txHash = txHash, !.chainId = chainId]
       IN  tasks' = [tasks EXCEPT ![t] =
                IF b = NULL \/ txHash = NULL \/ chainId = NoInt
                    THEN Responded(task, 400)
                ELSE IF row = NoRow THEN Responded(task, 404)
                ELSE IF row.expiresAt # NoTime /\ row.expiresAt < now
                    THEN [task EXCEPT !.pc = "sp_expire"]
                ELSE IF row.paymentToken = NULL \/ row.paymentAmount = NoInt
                    THEN Responded(task, 400)
                ELSE task]
    /\ UNCHANGED <<bookings, activityLog, ledger, now, statusWrites>>

\* lines 19-81: the body's fields, then load the booking and validate the
\* submission
SubmitPayment(t, b, txHash, chainId) ==
    /\ CanStart(t)
    /\ LET row == FindUnique(b)
           task == [NewTask("submit", "sp_update", b) EXCEPT
                        !.txHash = txHash, !.chainId = chainId]
       IN  tasks' = [tasks EXCEPT ![t] =
                IF b = NULL \/ txHash = NULL \/ chainId = NoInt
                    THEN Responded(task, 400)
                ELSE IF row = NoRow THEN Responded(task, 404)
                ELSE IF row.status # PENDING THEN Responded(task, 409)
                ELSE IF row.expiresAt # NoTime /\ row.expiresAt < now
                    THEN [task EXCEPT !.pc = "sp_expire"]
                ELSE IF row.paymentToken = NULL \/ row.paymentAmount = NoInt
                    THEN Responded(task, 400)
                ELSE task]
    /\ UNCHANGED <<bookings, activityLog, ledger, now, statusWrites>>

\* lines 62-73: the payment window is over: write EXPIRED, answer 410
SpExpire(t, ok) ==
    /\ tasks[t].pc = "sp_expire"
    /\ bookings' = IF ok
                   THEN [bookings EXCEPT ![tasks[t].bookingId].status = EXPIRED]
                   ELSE bookings
    /\ tasks' = [tasks EXCEPT ![t] = Responded(@, IF ok THEN 410 ELSE 500)]
    /\ UNCHANGED <<activityLog, ledger, now, statusWrites>>

\* lines 85-91: save txHash and chainId on the booking
SpUpdate(t, ok) ==
    /\ tasks[t].pc = "sp_update"
    /\ bookings' = IF ok
                   THEN [bookings EXCEPT ![tasks[t].bookingId] =
                            [@ EXCEPT !.txHash = tasks[t].txHash,
                                      !.chainId = tasks[t].chainId]]
                   ELSE bookings
    /\ tasks' = [tasks EXCEPT ![t] =
            IF ok THEN [@ EXCEPT !.pc = "sp_log"] ELSE Responded(@, 500)]
    /\ UNCHANGED <<activityLog, ledger, now, statusWrites>>

\* a plausible slip of the handler: verifyPayment is awaited, so no
\* response is sent while the verification runs
SpLogAwait(t, ok) ==
    /\ tasks[t].pc = "sp_log"
    /\ activityLog' = IF ok
                      THEN Append(activityLog,
                              Entry(tasks[t].bookingId, "payment_submitted",
                                    tasks[t].txHash, NULL))
                      ELSE activityLog
    /\ tasks' = [tasks EXCEPT ![t] =
            IF ok THEN [@ EXCEPT !.pc = "vfy_load"]
            ELSE Responded(@, 500)]
    /\ UNCHANGED <<bookings, ledger, now, statusWrites>>

\* lines 94-122: the payment_submitted entry, then verifyPayment is called
\* without await and the handler answers 200 'verifying'
SpLog(t, ok) ==
    /\ tasks[t].pc = "sp_log"
    /\ activityLog' = IF ok
                      THEN Append(activityLog,
                              Entry(tasks[t].bookingId, "payment_submitted",
                                    tasks[t].txHash, NULL))
                      ELSE activityLog
    /\ tasks' = [tasks EXCEPT ![t] =
            IF ok THEN [@ EXCEPT !.pc = "vfy_load", !.response = 200]
            ELSE Responded(@, 500)]
    /\ UNCHANGED <<bookings, ledger, now, statusWrites>>

----------------------------------------------------------------------------
(* checkExpiredBookings: lib/verification.ts 273-327 *)

\* the sequences that hold each element of the finite set S once
Orders(S) ==
    {q \in [1..Cardinality(S) -> S] : \A i, j \in DOMAIN q : q[i] = q[j] => i = j}

\* a plausible slip of the query: lte instead of lt
CheckExpiredBookingsLte(t) ==
    /\ CanStart(t)
    /\ LET found == {b \in DOMAIN bookings :
                        /\ bookings[b].status = PENDING
                        /\ bookings[b].expiresAt # NoTime
                        /\ bookings[b].expiresAt <= now}
       IN  \E q \in Orders(found) :
              tasks' = [tasks EXCEPT ![t] =
                  IF q = <<>>
                      THEN Finished(NewTask("sweep", "sw_commit", NULL), "returned", NULL)
                  ELSE [NewTask("sweep", "sw_commit", NULL) EXCEPT
                            !.queue = q, !.time = now]]
    /\ UNCHANGED <<bookings, activityLog, ledger, now, statusWrites>>

\* lines 275-292: findMany of the PENDING bookings with expiresAt < now
\* (a null expiresAt never matches); the store returns them in some order
CheckExpiredBookings(t) ==
    /\ CanStart(t)
    /\ LET found == {b \in DOMAIN bookings :
                        /\ bookings[b].status = PENDING
                        /\ bookings[b].expiresAt # NoTime
                        /\ bookings[b].expiresAt < now}
       IN  \E q \in Orders(found) :
              tasks' = [tasks EXCEPT ![t] =
                  IF q = <<>>
                      THEN Finished(NewTask("sweep", "sw_commit", NULL), "returned", NULL)
                  ELSE [NewTask("sweep", "sw_commit", NULL) EXCEPT
                            !.queue = q, !.time = now]]
    /\ UNCHANGED <<bookings, activityLog, ledger, now, statusWrites>>

\* db.$transaction([booking.update, activityLog.create]) of lines 297-317
CommitExpired(b, ok) ==
    IF ok
    THEN /\ bookings' = [bookings EXCEPT ![b].status = EXPIRED]
         /\ activityLog' = Append(activityLog, Entry(b, "booking_expired", NULL, NULL))
         /\ statusWrites' = [statusWrites EXCEPT ![b][EXPIRED] = @ + 1]
    ELSE UNCHANGED <<bookings, activityLog, statusWrites>>

\* lines 296-326: one iteration of the loop; a commit that throws leaves
\* the loop and the function
SwCommit(t, ok) ==
    /\ tasks[t].pc = "sw_commit"
    /\ CommitExpired(Head(tasks[t].queue), ok)
    /\ tasks' = [tasks EXCEPT ![t] =
            IF ~ok THEN Finished([@ EXCEPT !.storeFailed = TRUE], "threw", ErrStore)
            ELSE IF Len(@.queue) = 1 THEN Finished(@, "returned", NULL)
            ELSE [@ EXCEPT !.queue = Tail(@)]]
    /\ UNCHANGED <<ledger, now>>

----------------------------------------------------------------------------
(* POST /api/bookings/check-expiry: app/api/bookings/[bookingId]/route.ts 77-171 *)

\* lines 79-93: findMany of the PENDING bookings with expiresAt <= now
CheckExpiry(t) ==
    /\ CanStart(t)
    /\ LET found == {b \in DOMAIN bookings :
                        /\ bookings[b].status = PENDING
                        /\ bookings[b].expiresAt # NoTime
                        /\ bookings[b].expiresAt <= now}
       IN  \E q \in Orders(found) :
              tasks' = [tasks EXCEPT ![t] =
                  IF q = <<>>
                      THEN Responded(NewTask("checkExpiry", "ce_update", NULL), 200)
                  ELSE [NewTask("checkExpiry", "ce_update", NULL) EXCEPT
                            !.queue = q, !.time = now]]
    /\ UNCHANGED <<bookings, activityLog, ledger, now, statusWrites>>

\* the loop goes on with the next booking, or the handler answers
CeNext(task) ==
    IF Len(task.queue) = 1 THEN Responded(task, 200)
    ELSE [task EXCEPT !.pc = "ce_update", !.queue = Tail(@)]

\* lines 102-107: the status update; when it throws, the catch of the loop
\* body (lines 150-157) goes on with the next booking
CeUpdate(t, ok) ==
    /\ tasks[t].pc = "ce_update"
    /\ bookings' = IF ok
                   THEN [bookings EXCEPT ![Head(tasks[t].queue)].status = EXPIRED]
                   ELSE bookings
    /\ tasks' = [tasks EXCEPT ![t] =
            IF ok THEN [@ EXCEPT !.pc = "ce_log"] ELSE CeNext(@)]
    /\ UNCHANGED <<activityLog, ledger, now, statusWrites>>

\* lines 110-149: the payment_expired entry (and the expiry e-mail)
CeLog(t, ok) ==
    /\ tasks[t].pc = "ce_log"
    /\ activityLog' = IF ok
                      THEN Append(activityLog,
                              Entry(Head(tasks[t].queue), "payment_expired", NULL, NULL))
                      ELSE activityLog
    /\ tasks' = [tasks EXCEPT ![t] = CeNext(@)]
    /\ UNCHANGED <<bookings, ledger, now, statusWrites>>

----------------------------------------------------------------------------
(* retryFailedVerification: lib/verification.ts 329-369 *)

ErrNotFailed == "Booking is not in FAILED status"
ErrNoTxDetails == "Booking is missing transaction details"

\* a plausible slip of the guards: the status is not checked
RetryAnyStatus(t, b) ==
    /\ CanStart(t)
    /\ LET row == FindUnique(b)
           task == NewTask("retry", "rt_update", b)
       IN  tasks' = [tasks EXCEPT ![t] =
                IF row = NoRow THEN Finished(task, "threw", ErrNotFound)
                ELSE IF row.txHash = NULL \/ row.chainId = NoInt
                    THEN Finished(task, "threw", ErrNoTxDetails)
                ELSE [task EXCEPT !.txHash = row.txHash, !.chainId = row.chainId]]
    /\ UNCHANGED <<bookings, activityLog, ledger, now, statusWrites>>

\* a plausible slip of the guards: the stored transaction is not checked
RetryAnyDetails(t, b) ==
    /\ CanStart(t)
    /\ LET row == FindUnique(b)
           task == NewTask("retry", "rt_update", b)
       IN  tasks' = [tasks EXCEPT ![t] =
                IF row = NoRow THEN Finished(task, "threw", ErrNotFound)
                ELSE IF row.status # FAILED THEN Finished(task, "threw", ErrNotFailed)
                ELSE [task EXCEPT !.txHash = row.txHash, !.chainId = row.chainId]]
    /\ UNCHANGED <<bookings, activityLog, ledger, now, statusWrites>>

\* lines 331-352: load the booking; the three guards
RetryFailedVerification(t, b) ==
    /\ CanStart(t)
    /\ LET row == FindUnique(b)
           task == NewTask("retry", "rt_update", b)
       IN  tasks' = [tasks EXCEPT ![t] =
                IF row = NoRow THEN Finished(task, "threw", ErrNotFound)
                ELSE IF row.status # FAILED THEN Finished(task, "threw", ErrNotFailed)
                ELSE IF row.txHash = NULL \/ row.chainId = NoInt
                    THEN Finished(task, "threw", ErrNoTxDetails)
                ELSE [task EXCEPT !.txHash = row.txHash, !.chainId = row.chainId]]
    /\ UNCHANGED <<bookings, activityLog, ledger, now, statusWrites>>

\* lines 354-362: the status is put back to PENDING, then verifyPayment
\* runs with the stored txHash and chainId, awaited
RtUpdate(t, ok) ==
    /\ tasks[t].pc = "rt_update"
    /\ bookings' = IF ok
                   THEN [bookings EXCEPT ![tasks[t].bookingId].status = PENDING]
                   ELSE bookings
    /\ tasks' = [tasks EXCEPT ![t] =
            IF ok THEN [@ EXCEPT !.pc = "vfy_load"]
            ELSE Finished([@ EXCEPT !.storeFailed = TRUE], "threw", ErrStore)]
    /\ UNCHANGED <<activityLog, ledger, now, statusWrites>>

----------------------------------------------------------------------------
(* POST /api/admin/bookings/[bookingId]/approve: approve/route.ts 11-132 *)

\* bound: the payment window a request asks for (sessionExpiryMinutes of
\* the body, line 23), in clock ticks
SessionExpiry == 1

\* lines 27-69: load the booking, the WAITLISTED guard, the amount
Approve(t, b, paymentToken, paymentAmount) ==
    /\ CanStart(t)
    /\ LET row == FindUnique(b)
           finalAmount == IF paymentAmount # NoInt THEN paymentAmount
                          ELSE StayPriceUSDC(b)
           task == NewTask("approve", "ap_update", b)
       IN  tasks' = [tasks EXCEPT ![t] =
                IF row = NoRow THEN Responded(task, 404)
                ELSE IF row.status # WAITLISTED THEN Responded(task, 409)
                ELSE IF finalAmount = NoInt \/ finalAmount <= 0
                    THEN Responded(task, 400)
                ELSE [task EXCEPT !.paymentToken = paymentToken,
                                  !.paymentAmount = finalAmount,
                                  !.time = now + SessionExpiry]]
    /\ UNCHANGED <<bookings, activityLog, ledger, now, statusWrites>>

\* (finalAmount * Math.pow(10, 6)).toString() of lines 65-66, whole amounts
ApproveBaseUnits(finalAmount) == Canon(finalAmount, 6)

\* lines 72-84: the booking becomes PENDING with its payment details
ApUpdate(t, ok) ==
    /\ tasks[t].pc = "ap_update"
    /\ bookings' = IF ok
                   THEN [bookings EXCEPT ![tasks[t].bookingId] =
                            [@ EXCEPT !.status = PENDING,
                                      !.paymentToken = tasks[t].paymentToken,
                                      !.paymentAmount = tasks[t].paymentAmount,
                                      !.amountBaseUnits =
                                          ApproveBaseUnits(tasks[t].paymentAmount),
                                      !.expiresAt = tasks[t].time,
                                      !.chain = "bsc",
                                      !.chainId = BSC_TESTNET]]
                   ELSE bookings
    /\ tasks' = [tasks EXCEPT ![t] =
            IF ok THEN [@ EXCEPT !.pc = "ap_log"] ELSE Responded(@, 500)]
    /\ UNCHANGED <<activityLog, ledger, now, statusWrites>>

\* lines 87-123: the waitlist_approved entry, then the response
ApLog(t, ok) ==
    /\ tasks[t].pc = "ap_log"
    /\ activityLog' = IF ok
                      THEN Append(activityLog,
                              Entry(tasks[t].bookingId, "waitlist_approved", NULL, NULL))
                      ELSE activityLog
    /\ tasks' = [tasks EXCEPT ![t] = Responded(@, IF ok THEN 200 ELSE 500)]
    /\ UNCHANGED <<bookings, ledger, now, statusWrites>>

----------------------------------------------------------------------------
(* POST /api/admin/approve-booking: app/api/admin/approve-booking/route.ts *)

\* bound: the payment window a request asks for (paymentExpiryHours of the
\* body, line 48), in clock ticks
PaymentExpiry == 2

\* lines 64-115: load the booking, the WAITLISTED guard, the e-mail guard
ApproveBooking(t, b) ==
    /\ CanStart(t)
    /\ LET row == FindUnique(b)
           task == NewTask("approveBooking", "ab_update", b)
       IN  tasks' = [tasks EXCEPT ![t] =
                IF row = NoRow THEN Responded(task, 404)
                ELSE IF row.status # WAITLISTED THEN Responded(task, 400)
                ELSE IF UserEmail(b) = NULL THEN Responded(task, 400)
                ELSE [task EXCEPT !.time = now + PaymentExpiry]]
    /\ UNCHANGED <<bookings, activityLog, ledger, now, statusWrites>>

\* lines 118-124: the booking becomes PENDING; no payment details are set
AbUpdate(t, ok) ==
    /\ tasks[t].pc = "ab_update"
    /\ bookings' = IF ok
                   THEN [bookings EXCEPT ![tasks[t].bookingId] =
                            [@ EXCEPT !.status = PENDING,
                                      !.expiresAt = tasks[t].time]]
                   ELSE bookings
    /\ tasks' = [tasks EXCEPT ![t] =
            IF ok THEN [@ EXCEPT !.pc = "ab_log"] ELSE Responded(@, 500)]
    /\ UNCHANGED <<activityLog, ledger, now, statusWrites>>

\* lines 127-177: the booking_approved entry, the approval e-mail, the response
AbLog(t, ok) ==
    /\ tasks[t].pc = "ab_log"
    /\ activityLog' = IF ok
                      THEN Append(activityLog,
                              Entry(tasks[t].bookingId, "booking_approved", NULL, NULL))
                      ELSE activityLog
    /\ tasks' = [tasks EXCEPT ![t] = Responded(@, IF ok THEN 200 ELSE 500)]
    /\ UNCHANGED <<bookings, ledger, now, statusWrites>>

----------------------------------------------------------------------------
(* The clock *)

Tick ==
    /\ now < MaxTime
    /\ now' = now + 1
    /\ UNCHANGED <<bookings, activityLog, ledger, tasks, statusWrites>>

----------------------------------------------------------------------------
(* The system: requests arrive at any time and their steps interleave *)

\* the receipts of the two transactions the concurrent runs verify: h1
\* pays the booking, h2 is a transfer to somebody else
PaidLedger ==
    [h \in TxHashes |->
        IF h = "h1" THEN Receipt(1, <<GoodLog>>)
        ELSE Receipt(1, <<TransferLog(Addr("arb-usdc"), Payer, Stranger,
                                      ParseUnits(300, 6))>>)]

\* the row Approve leaves when it ran at time 0 with the stay's price
ApprovedBooking ==
    [NewBooking EXCEPT !.status = PENDING,
                       !.paymentToken = USDC,
                       !.paymentAmount = StayPriceUSDC("B1"),
                       !.amountBaseUnits = Canon(StayPriceUSDC("B1"), 6),
                       !.expiresAt = SessionExpiry,
                       !.chain = "bsc",
                       !.chainId = BSC_TESTNET]

\* the booking is new, or the admin has approved it already
Init ==
    /\ \E row \in {NewBooking, ApprovedBooking} :
          /\ bookings = [b \in Bookings |-> row]
          /\ activityLog =
                IF row.status = PENDING
                THEN <<Entry("B1", "waitlist_approved", NULL, NULL)>>
                ELSE <<>>
    /\ now = 0
    /\ tasks = [t \in TaskIds |-> IdleTask]
    /\ statusWrites = [b \in Bookings |-> NoWrites]
    /\ ledger = PaidLedger

Next ==
    \/ \E t \in TaskIds, b \in Bookings : Fresh(t) /\ Approve(t, b, USDC, NoInt)
    \/ \E t \in TaskIds, ok \in BOOLEAN : ApUpdate(t, ok)
    \/ \E t \in TaskIds, ok \in BOOLEAN : ApLog(t, ok)
    \/ \E t \in TaskIds, b \in Bookings, h \in TxHashes :
            Fresh(t) /\ SubmitPayment(t, b, h, ARBITRUM)
    \/ \E t \in TaskIds, ok \in BOOLEAN : SpExpire(t, ok)
    \/ \E t \in TaskIds, ok \in BOOLEAN : SpUpdate(t, ok)
    \/ \E t \in TaskIds, ok \in BOOLEAN : SpLog(t, ok)
    \/ \E t \in TaskIds : VfyLoad(t)
    \/ \E t \in TaskIds, avail \in {"ok", "notfound"} : VfyChain(t, avail)
    \/ \E t \in TaskIds, ok \in BOOLEAN, mail \in {"sent", "failed"} :
            VfyCommit(t, ok, mail)
    \/ \E t \in TaskIds, ok \in BOOLEAN : VfyFail(t, ok)
    \/ \E t \in TaskIds : Fresh(t) /\ CheckExpiredBookings(t)
    \/ \E t \in TaskIds, ok \in BOOLEAN : SwCommit(t, ok)
    \/ \E t \in TaskIds : Fresh(t) /\ CheckExpiry(t)
    \/ \E t \in TaskIds, ok \in BOOLEAN : CeUpdate(t, ok)
    \/ \E t \in TaskIds, ok \in BOOLEAN : CeLog(t, ok)
    \/ \E t \in TaskIds, b \in Bookings : Fresh(t) /\ RetryFailedVerification(t, b)
    \/ \E t \in TaskIds, ok \in BOOLEAN : RtUpdate(t, ok)
    \/ Tick

Spec == Init /\ [][Next]_vars

----------------------------------------------------------------------------
(* Calls in sequence: one caller at a time invokes an operation and waits  *)
(* for it to end, at one moment of the clock.  The transaction h1 is not   *)
(* mined at first and may be mined with any receipt.  The booking is new,  *)
(* or was cancelled, or was approved earlier and has been expired by       *)
(* checkExpiredBookings.                                                   *)

\* the row and the entries that Approve and checkExpiredBookings left
ExpiredBooking == [ApprovedBooking EXCEPT !.status = EXPIRED]

InitCall ==
    /\ \E row \in {NewBooking, [NewBooking EXCEPT !.status = CANCELLED],
                    ExpiredBooking} :
          /\ bookings = [b \in Bookings |-> row]
          /\ activityLog =
                IF row.status = EXPIRED
                THEN <<Entry("B1", "waitlist_approved", NULL, NULL),
                       Entry("B1", "booking_expired", NULL, NULL)>>
                ELSE <<>>
          /\ statusWrites = [b \in Bookings |->
                IF row.status = EXPIRED THEN [NoWrites EXCEPT ![EXPIRED] = 1]
                ELSE NoWrites]
    /\ now = MaxTime
    /\ tasks = [t \in TaskIds |-> IdleTask]
    /\ ledger = [h \in TxHashes |-> Unmined]

\* the caller's task
Caller == CHOOSE t \in TaskIds : \A u \in TaskIds : t <= u

NextCall ==
    \/ \E b \in Bookings, token \in PaymentTokens :
            Quiescent /\ Approve(Caller, b, token, NoInt)
    \/ ApUpdate(Caller, TRUE)
    \/ ApLog(Caller, TRUE)
    \/ \E b \in Bookings : Quiescent /\ ApproveBooking(Caller, b)
    \/ AbUpdate(Caller, TRUE)
    \/ AbLog(Caller, TRUE)
    \/ \E b \in Bookings, c \in {ARBITRUM, BSC_TESTNET} :
            Quiescent /\ VerifyPayment(Caller, b, "h1", c)
    \/ VfyLoad(Caller)
    \/ \E avail \in {"ok", "notfound", "noreceipt"} : VfyChain(Caller, avail)
    \/ \E ok \in BOOLEAN, mail \in {"sent", "failed"} : VfyCommit(Caller, ok, mail)
    \/ \E ok \in BOOLEAN : VfyFail(Caller, ok)

SpecCall == InitCall /\ [][NextCall]_vars

----------------------------------------------------------------------------
(* Operations one after the other: an operation starts only when the one   *)
(* before it has ended (a submit-payment request has ended when the         *)
(* verification it started has ended), and the clock moves between          *)
(* operations.  Two bookings, so that a sweep finds more than one.          *)

\* the audit log holds at most MaxEntries entries when an operation starts
MaxEntries == 4

SeqBookings == {"B1", "B2"}

\* B2 was approved at time 0; B1 is new or was approved at time 0
InitSeq ==
    /\ \E row \in {NewBooking, ApprovedBooking} :
          /\ bookings = [b \in SeqBookings |->
                            IF b = "B1" THEN row ELSE ApprovedBooking]
          /\ activityLog =
                <<Entry("B2", "waitlist_approved", NULL, NULL)>> \o
                (IF row.status = PENDING
                 THEN <<Entry("B1", "waitlist_approved", NULL, NULL)>>
                 ELSE <<>>)
    /\ now = 0
    /\ tasks = [t \in TaskIds |-> IdleTask]
    /\ statusWrites = [b \in SeqBookings |-> NoWrites]
    /\ ledger = PaidLedger

\* an operation may start
CanCall == Quiescent /\ Len(activityLog) < MaxEntries

NextSeq ==
    \/ CanCall /\ Approve(Caller, "B1", USDC, NoInt)
    \/ \E ok \in BOOLEAN : ApUpdate(Caller, ok)
    \/ \E ok \in BOOLEAN : ApLog(Caller, ok)
    \/ CanCall /\ ApproveBooking(Caller, "B1")
    \/ \E ok \in BOOLEAN : AbUpdate(Caller, ok)
    \/ \E ok \in BOOLEAN : AbLog(Caller, ok)
    \/ \E b \in {"B0", "B1"}, h \in TxHashes, c \in {ARBITRUM, NoInt} :
            CanCall /\ SubmitPayment(Caller, b, h, c)
    \/ \E ok \in BOOLEAN : SpExpire(Caller, ok)
    \/ \E ok \in BOOLEAN : SpUpdate(Caller, ok)
    \/ \E ok \in BOOLEAN : SpLog(Caller, ok)
    \/ CanCall /\ VerifyPayment(Caller, "B1", "h2", NoInt)
    \/ VfyLoad(Caller)
    \/ \E avail \in {"ok", "notfound"} : VfyChain(Caller, avail)
    \/ \E ok \in BOOLEAN, mail \in {"sent", "failed"} : VfyCommit(Caller, ok, mail)
    \/ \E ok \in BOOLEAN : VfyFail(Caller, ok)
    \/ CanCall /\ CheckExpiredBookings(Caller)
    \/ \E ok \in BOOLEAN : SwCommit(Caller, ok)
    \/ \E b \in {"B0", "B1"} : CanCall /\ RetryFailedVerification(Caller, b)
    \/ \E ok \in BOOLEAN : RtUpdate(Caller, ok)
    \/ Quiescent /\ Tick

SpecSeq == InitSeq /\ [][NextSeq]_vars

----------------------------------------------------------------------------
(* Progress of a verification.  The steps of the program are taken when     *)
(* they can be: the database and the provider answer every call.  The chain *)
(* is not obliged to produce the confirmations a pending tx.wait(3) waits   *)
(* for.                                                                     *)

\* the booking is new or approved; no transaction is mined yet
InitLive ==
    /\ \E row \in {NewBooking, ApprovedBooking} :
          /\ bookings = [b \in Bookings |-> row]
          /\ activityLog =
                IF row.status = PENDING
                THEN <<Entry("B1", "waitlist_approved", NULL, NULL)>>
                ELSE <<>>
    /\ now = 0
    /\ tasks = [t \in TaskIds |-> IdleTask]
    /\ statusWrites = [b \in Bookings |-> NoWrites]
    /\ ledger = [h \in TxHashes |-> Unmined]

NextLive ==
    \/ Quiescent /\ VerifyPayment(Caller, "B1", "h1", ARBITRUM)
    \/ VfyLoad(Caller)
    \/ \E avail \in {"ok", "notfound", "noreceipt", "stall"} : VfyChain(Caller, avail)
    \/ \E avail \in {"ok", "noreceipt"} : VfyWait(Caller, avail)
    \/ \E ok \in BOOLEAN, mail \in {"sent", "failed"} : VfyCommit(Caller, ok, mail)
    \/ \E ok \in BOOLEAN : VfyFail(Caller, ok)

\* the steps the event loop, the database and the provider guarantee
ProgramSteps ==
    \/ VfyLoad(Caller)
    \/ \E avail \in {"ok", "notfound", "noreceipt", "stall"} : VfyChain(Caller, avail)
    \/ \E ok \in BOOLEAN, mail \in {"sent", "failed"} : VfyCommit(Caller, ok, mail)
    \/ \E ok \in BOOLEAN : VfyFail(Caller, ok)

SpecLive == InitLive /\ [][NextLive]_vars /\ WF_vars(ProgramSteps)

----------------------------------------------------------------------------
(* Retries.  The booking was approved, its payment h1 was submitted and the  *)
(* verification failed because the transaction was not found yet.  The      *)
(* caller retries, one call at a time; h1 may since be mined with any       *)
(* receipt.                                                                 *)

\* the row the failed verification left
FailedBooking ==
    FailedRow(ApprovedBooking, [txHash |-> "h1", chainId |-> ARBITRUM])

InitRetry ==
    /\ bookings = [b \in Bookings |-> FailedBooking]
    /\ activityLog = <<Entry("B1", "waitlist_approved", NULL, NULL),
                       Entry("B1", "payment_submitted", "h1", NULL),
                       Entry("B1", "payment_failed", "h1", ErrTxNotFound)>>
    /\ now = MaxTime
    /\ tasks = [t \in TaskIds |-> IdleTask]
    /\ statusWrites = [b \in Bookings |-> [NoWrites EXCEPT ![FAILED] = 1]]
    /\ ledger = [h \in TxHashes |-> Unmined]

NextRetry ==
    \/ CanCall /\ RetryFailedVerification(Caller, "B1")
    \/ \E ok \in BOOLEAN : RtUpdate(Caller, ok)
    \/ VfyLoad(Caller)
    \/ \E avail \in {"ok", "notfound", "noreceipt"} : VfyChain(Caller, avail)
    \/ \E ok \in BOOLEAN, mail \in {"sent", "failed"} : VfyCommit(Caller, ok, mail)
    \/ \E ok \in BOOLEAN : VfyFail(Caller, ok)

SpecRetry == InitRetry /\ [][NextRetry]_vars

----------------------------------------------------------------------------
(* Submissions.  The booking is approved; the guest's client submits        *)
(* transactions for it, on either of two chains, while earlier requests are *)
(* still being served; the sweeper and retries run as well.  All of it     *)
(* happens at one moment of the clock, inside the payment window or after   *)
(* it.                                                                      *)

InitSubmit ==
    /\ bookings = [b \in Bookings |-> ApprovedBooking]
    /\ activityLog = <<Entry("B1", "waitlist_approved", NULL, NULL)>>
    /\ now \in {0, MaxTime}
    /\ tasks = [t \in TaskIds |-> IdleTask]
    /\ statusWrites = [b \in Bookings |-> NoWrites]
    /\ ledger = PaidLedger

NextSubmit ==
    \/ \E t \in TaskIds, h \in TxHashes, c \in {ARBITRUM, BSC} :
            Fresh(t) /\ SubmitPayment(t, "B1", h, c)
    \/ \E t \in TaskIds, ok \in BOOLEAN : SpExpire(t, ok)
    \/ \E t \in TaskIds, ok \in BOOLEAN : SpUpdate(t, ok)
    \/ \E t \in TaskIds, ok \in BOOLEAN : SpLog(t, ok)
    \/ \E t \in TaskIds : VfyLoad(t)
    \/ \E t \in TaskIds, avail \in {"ok", "notfound"} : VfyChain(t, avail)
    \/ \E t \in TaskIds, ok \in BOOLEAN, mail \in {"sent", "failed"} :
            VfyCommit(t, ok, mail)
    \/ \E t \in TaskIds, ok \in BOOLEAN : VfyFail(t, ok)
    \/ \E t \in TaskIds : Fresh(t) /\ CheckExpiredBookings(t)
    \/ \E t \in TaskIds, ok \in BOOLEAN : SwCommit(t, ok)
    \/ \E t \in TaskIds : Fresh(t) /\ RetryFailedVerification(t, "B1")
    \/ \E t \in TaskIds, ok \in BOOLEAN : RtUpdate(t, ok)

SpecSubmit == InitSubmit /\ [][NextSubmit]_vars

----------------------------------------------------------------------------
(* Two bookings of the same stay, approved for the same token and amount.   *)
(* Transactions are submitted for either of them, one request at a time,    *)
(* inside the payment window; the store answers every call.  The Booking    *)
(* table has no uniqueness constraint on txHash: bookingId is its only      *)
(* unique column.                                                           *)

InitReuse ==
    /\ bookings = [b \in SeqBookings |-> ApprovedBooking]
    /\ activityLog = <<Entry("B1", "waitlist_approved", NULL, NULL),
                       Entry("B2", "waitlist_approved", NULL, NULL)>>
    /\ now = 0
    /\ tasks = [t \in TaskIds |-> IdleTask]
    /\ statusWrites = [b \in SeqBookings |-> NoWrites]
    /\ ledger = PaidLedger

NextReuse ==
    \/ \E b \in SeqBookings, h \in TxHashes :
            Quiescent /\ SubmitPayment(Caller, b, h, ARBITRUM)
    \/ SpUpdate(Caller, TRUE)
    \/ SpLog(Caller, TRUE)
    \/ VfyLoad(Caller)
    \/ \E avail \in {"ok", "notfound"} : VfyChain(Caller, avail)
    \/ \E mail \in {"sent", "failed"} : VfyCommit(Caller, TRUE, mail)
    \/ VfyFail(Caller, TRUE)

SpecReuse == InitReuse /\ [][NextReuse]_vars

----------------------------------------------------------------------------
(* Properties *)

\* the receipt a finished or running verifyPayment task works on
ReceiptOf(task) == ledger[task.txHash]

\* the token contract and the amount a booking's payment is expected with
\* on the chain of its verification
TokenOf(b, chainId) == TokenInfo(chainId, bookings[b].paymentToken)
ExpectedOf(b, chainId) ==
    ParseUnits(bookings[b].paymentAmount, TokenOf(b, chainId).decimals)

\* log is a Transfer to the treasury emitted by the token contract
TreasuryTransfer(log, tokenInfo) ==
    /\ ToLowerCase(log.address) = ToLowerCase(tokenInfo.address)
    /\ log.isTransfer
    /\ ToLowerCase(log.to) = ToLowerCase(treasuryAddress)

\* log is a Transfer to the treasury emitted by some other contract
ForeignTransfer(log, tokenInfo) ==
    /\ ToLowerCase(log.address) # ToLowerCase(tokenInfo.address)
    /\ log.isTransfer
    /\ ToLowerCase(log.to) = ToLowerCase(treasuryAddress)

\* C1: verifyPayment called for a booking whose status is not PENDING
\* returns without error, changes no booking and appends no entry; when
\* the booking was CONFIRMED by an earlier call it stays CONFIRMED with
\* exactly one payment_confirmed entry.
C1_StatusGuardIsNoOp ==
    [][\A b \in Bookings :
          (/\ tasks[Caller].pc = "vfy_load"
           /\ tasks[Caller].bookingId = b
           /\ bookings[b].status # PENDING)
          => /\ tasks'[Caller].pc = "done"
             /\ tasks'[Caller].result = "returned"
             /\ tasks'[Caller].error = NULL
             /\ bookings' = bookings
             /\ activityLog' = activityLog
             /\ (bookings[b].status = CONFIRMED
                    => /\ bookings'[b].status = CONFIRMED
                       /\ CountSeq(activityLog', b, "payment_confirmed") = 1)]_vars

\* a second call has found the booking CONFIRMED by the first and returned
C1_Witness ==
    /\ tasks[Caller].op = "verify"
    /\ tasks[Caller].pc = "done"
    /\ tasks[Caller].loaded = CONFIRMED
    /\ tasks[Caller].result = "returned"
    /\ bookings["B1"].status = CONFIRMED
    /\ Count("B1", "payment_confirmed") = 1

\* position of the first Transfer of the token contract to the treasury
\* in logs from position i on, 0 when there is none
RECURSIVE FirstTreasuryFrom(_, _, _)
FirstTreasuryFrom(logs, i, tokenInfo) ==
    IF i > Len(logs) THEN 0
    ELSE IF TreasuryTransfer(logs[i], tokenInfo) THEN i
    ELSE FirstTreasuryFrom(logs, i + 1, tokenInfo)

FirstTreasuryTransfer(logs, tokenInfo) == FirstTreasuryFrom(logs, 1, tokenInfo)

\* the number of Transfers of the token contract to the treasury in logs
RECURSIVE TreasuryTransfers(_, _)
TreasuryTransfers(logs, tokenInfo) ==
    IF logs = <<>> THEN 0
    ELSE (IF TreasuryTransfer(Head(logs), tokenInfo) THEN 1 ELSE 0)
         + TreasuryTransfers(Tail(logs), tokenInfo)

\* C2 (as claimed): the first Transfer of the token contract to the
\* treasury is authoritative: a booking is never CONFIRMED from a receipt
\* whose first such Transfer carries a value other than the expected
\* amount, because the scan fails there and examines no later log.
C2_ExactAmount ==
    \A b \in Bookings :
        bookings[b].status = CONFIRMED
        => LET logs == ledger[bookings[b].txHash].logs
               first == FirstTreasuryTransfer(logs, TokenOf(b, bookings[b].chainId))
           IN  /\ first > 0
               /\ logs[first].value = ExpectedOf(b, bookings[b].chainId)

\* C3: a log of a contract other than the token contract configured for
\* (chainId, booking.paymentToken) never brings a run to the CONFIRMED
\* commit, and a CONFIRMED booking's receipt holds a Transfer of that token
\* contract to the treasury of exactly the expected amount.
C3_TokenIsolation ==
    /\ \A t \in TaskIds :
          tasks[t].pc = "vfy_commit"
          => ToLowerCase(ReceiptOf(tasks[t]).logs[tasks[t].idx].address)
               = ToLowerCase(TokenInfo(tasks[t].chainId,
                                       tasks[t].paymentToken).address)
    /\ \A b \in Bookings :
          bookings[b].status = CONFIRMED
          => \E i \in DOMAIN ledger[bookings[b].txHash].logs :
                LET log == ledger[bookings[b].txHash].logs[i]
                IN  /\ TreasuryTransfer(log, TokenOf(b, bookings[b].chainId))
                    /\ log.value = ExpectedOf(b, bookings[b].chainId)

\* a run has ended FAILED on a receipt in which another contract
\* transferred exactly the expected amount to the treasury
C3_Witness ==
    /\ tasks[Caller].op = "verify"
    /\ tasks[Caller].pc = "done"
    /\ tasks[Caller].error = ErrNoTransfer
    /\ bookings["B1"].status = FAILED
    /\ \E i \in DOMAIN ReceiptOf(tasks[Caller]).logs :
          LET log == ReceiptOf(tasks[Caller]).logs[i]
          IN  /\ ForeignTransfer(log, TokenOf("B1", tasks[Caller].chainId))
              /\ log.value = ExpectedOf("B1", tasks[Caller].chainId)

\* C4: a status written by verifyPayment or checkExpiredBookings is
\* persisted exactly when the ActivityLogEntry of the same commit is: in
\* every state, store failures at any write included, each booking has as
\* many CONFIRMED / FAILED / EXPIRED writes of these operations as it has
\* payment_confirmed / payment_failed / booking_expired entries.
C4_AtomicCommits ==
    \A b \in Bookings :
        /\ statusWrites[b][CONFIRMED] = Count(b, "payment_confirmed")
        /\ statusWrites[b][FAILED] = Count(b, "payment_failed")
        /\ statusWrites[b][EXPIRED] = Count(b, "booking_expired")

\* a commit of verifyPayment has met a store failure after another outcome
\* commit was persisted
C4_Witness ==
    /\ \E t \in TaskIds :
          /\ tasks[t].op \in {"verify", "submit"}
          /\ tasks[t].pc = "done"
          /\ tasks[t].storeFailed
    /\ \E st \in {CONFIRMED, FAILED, EXPIRED} : statusWrites["B1"][st] > 0

\* a finished verifyPayment run that loaded the booking PENDING and met no
\* store failure
RanOnPending(task) ==
    /\ task.op = "verify"
    /\ task.pc = "done"
    /\ task.loaded = PENDING
    /\ ~task.storeFailed

\* the last entry of the audit log
LastEntry == activityLog[Len(activityLog)]

\* C5: a PENDING booking with token and amount set, a supported chain and
\* token, a transaction found with 3 confirmations and status success
\* whose first treasury-bound Transfer of the token contract has exactly
\* the expected value: verifyPayment ends CONFIRMED with txHash, chain,
\* blockNumber, sender = log.from, receiver = log.to, amountBaseUnits =
\* the expected amount, and exactly one payment_confirmed entry.
C5_HappyPath ==
    LET task == tasks[Caller]
        b == task.bookingId
        tokenInfo == TokenOf(b, task.chainId)
        receipt == ReceiptOf(task)
        first == FirstTreasuryTransfer(receipt.logs, tokenInfo)
    IN  (/\ RanOnPending(task)
         /\ bookings[b].paymentToken # NULL
         /\ bookings[b].paymentAmount # NoInt
         /\ tokenInfo # NoTokenInfo
         /\ task.provider = "ok"
         /\ receipt.status = 1
         /\ first > 0
         /\ receipt.logs[first].value = ExpectedOf(b, task.chainId))
        => /\ task.result = "returned"
           /\ bookings[b].status = CONFIRMED
           /\ bookings[b].txHash = task.txHash
           /\ bookings[b].chain = ChainName(task.chainId)
           /\ bookings[b].chainId = task.chainId
           /\ bookings[b].blockNumber = receipt.blockNumber
           /\ bookings[b].senderAddress = receipt.logs[first].from
           /\ bookings[b].receiverAddress = receipt.logs[first].to
           /\ bookings[b].amountBaseUnits = ExpectedOf(b, task.chainId)
           /\ Count(b, "payment_confirmed") = 1
           /\ LastEntry = Entry(b, "payment_confirmed", task.txHash, NULL)

\* a run has confirmed a booking from a receipt whose matching Transfer is
\* not the first log
C5_Witness ==
    /\ RanOnPending(tasks[Caller])
    /\ tasks[Caller].provider = "ok"
    /\ bookings["B1"].status = CONFIRMED
    /\ bookings["B1"].senderAddress = Payer
    /\ FirstTreasuryTransfer(ReceiptOf(tasks[Caller]).logs,
                             TokenOf("B1", tasks[Caller].chainId)) = 2

\* the error verifyPayment raises for the cause a finished run met, NULL
\* when it met none of the causes the failure path lists
FailureCause(task) ==
    LET b == task.bookingId
        tokenInfo == TokenOf(b, task.chainId)
        receipt == ReceiptOf(task)
    IN  IF bookings[b].paymentToken = NULL \/ bookings[b].paymentAmount = NoInt
            THEN ErrNoDetails
        ELSE IF tokenInfo = NoTokenInfo THEN ErrConfig
        ELSE IF task.provider = "notfound" THEN ErrTxNotFound
        ELSE IF task.provider = "noreceipt" THEN ErrNoReceipt
        ELSE IF receipt.status = 0 THEN ErrReverted
        ELSE IF \A i \in DOMAIN receipt.logs :
                   ~(/\ TreasuryTransfer(receipt.logs[i], tokenInfo)
                     /\ receipt.logs[i].value = ExpectedOf(b, task.chainId))
            THEN ErrNoTransfer
        ELSE NULL

\* C6: for a PENDING booking each cause (token or amount missing, chain or
\* token unsupported, transaction not found, receipt missing, receipt
\* reverted, no matching transfer) makes verifyPayment set FAILED, store
\* the supplied txHash and chainId, append exactly one payment_failed entry
\* carrying the reason, and raise that same error to the caller.
C6_FailurePath ==
    LET task == tasks[Caller]
        b == task.bookingId
    IN  (RanOnPending(task) /\ FailureCause(task) # NULL)
        => /\ task.result = "threw"
           /\ task.error = FailureCause(task)
           /\ bookings[b].status = FAILED
           /\ bookings[b].txHash = task.txHash
           /\ bookings[b].chainId = task.chainId
           /\ Count(b, "payment_failed") = 1
           /\ LastEntry = Entry(b, "payment_failed", task.txHash, task.error)

\* a run has failed a booking approved without payment details
C6_Witness ==
    /\ RanOnPending(tasks[Caller])
    /\ tasks[Caller].result = "threw"
    /\ tasks[Caller].error = ErrNoDetails
    /\ bookings["B1"].status = FAILED
    /\ bookings["B1"].txHash = "h1"
    /\ Count("B1", "payment_failed") = 1

\* C7 (as claimed): when the receipt's only Transfer of the token contract
\* to the treasury has a value other than the expected amount, the booking
\* ends FAILED and the reason recorded and raised is "Amount mismatch".
C7_AmountMismatchReason ==
    LET task == tasks[Caller]
        b == task.bookingId
        tokenInfo == TokenOf(b, task.chainId)
        receipt == ReceiptOf(task)
        first == FirstTreasuryTransfer(receipt.logs, tokenInfo)
    IN  (/\ RanOnPending(task)
         /\ bookings[b].paymentToken # NULL
         /\ bookings[b].paymentAmount # NoInt
         /\ tokenInfo # NoTokenInfo
         /\ task.provider = "ok"
         /\ receipt.status = 1
         /\ TreasuryTransfers(receipt.logs, tokenInfo) = 1
         /\ receipt.logs[first].value # ExpectedOf(b, task.chainId))
        => /\ bookings[b].status = FAILED
           /\ task.result = "threw"
           /\ task.error = ErrAmountMismatch
           /\ LastEntry = Entry(b, "payment_failed", task.txHash, ErrAmountMismatch)

\* C8 (as claimed): under every interleaving of verifyPayment runs, the
\* sweeper, the check-expiry handler, retries and the submit-payment
\* handler, a booking that is CONFIRMED never changes to another status.
C8_ConfirmedTerminal ==
    [][\A b \in Bookings :
          bookings[b].status = CONFIRMED => bookings'[b].status = CONFIRMED]_vars

\* C9 (as claimed): under every interleaving of the sweeper with in-flight
\* verifyPayment runs, retries and submissions, a booking the sweeper has
\* set EXPIRED never becomes CONFIRMED, FAILED or PENDING.
C9_ExpiredTerminal ==
    [][\A b \in Bookings :
          (bookings[b].status = EXPIRED /\ Count(b, "booking_expired") > 0)
          => bookings'[b].status \notin {CONFIRMED, FAILED, PENDING}]_vars

\* C10 (as claimed): of verifyPayment runs that interleave on one booking,
\* an outcome commit (CONFIRMED or FAILED, with its payment_confirmed or
\* payment_failed entry) is applied only while the booking is still
\* PENDING: never on a booking that already carries the outcome another
\* run committed.
C10_OptimisticCommit ==
    [][\A b \in Bookings :
          (\/ statusWrites'[b][CONFIRMED] # statusWrites[b][CONFIRMED]
           \/ statusWrites'[b][FAILED] # statusWrites[b][FAILED])
          => bookings[b].status \notin {CONFIRMED, FAILED}]_vars

\* the status changes the state diagram allows
AllowedTransitions ==
    {<<WAITLISTED, PENDING>>, <<PENDING, CONFIRMED>>, <<PENDING, FAILED>>,
     <<PENDING, EXPIRED>>, <<FAILED, PENDING>>}

\* C11: when operations do not overlap, every change of a booking's status
\* is WAITLISTED->PENDING, PENDING->CONFIRMED, PENDING->FAILED,
\* PENDING->EXPIRED or FAILED->PENDING, and FAILED->PENDING is made only by
\* the update of retryFailedVerification.
C11_AllowedTransitions ==
    [][\A b \in DOMAIN bookings :
          bookings'[b].status # bookings[b].status
          => /\ <<bookings[b].status, bookings'[b].status>> \in AllowedTransitions
             /\ (bookings[b].status = FAILED
                    => /\ tasks[Caller].op = "retry"
                       /\ tasks[Caller].pc = "rt_update"
                       /\ tasks[Caller].bookingId = b)]_vars

\* a booking has been through FAILED -> PENDING -> CONFIRMED: a retry
\* confirmed a booking whose first verification failed
C11_Witness ==
    /\ bookings["B1"].status = CONFIRMED
    /\ Count("B1", "payment_failed") = 1
    /\ Count("B1", "payment_confirmed") = 1
    /\ tasks[Caller].op = "retry"
    /\ tasks[Caller].pc = "done"

\* the evidence fields of a row that are set
Evidence(row) ==
    {f \in {"chain", "blockNumber", "senderAddress", "receiverAddress",
            "amountBaseUnits"} :
        row[f] # NewBooking[f]}

\* C12 (as claimed): the evidence fields chain, blockNumber, senderAddress,
\* receiverAddress and amountBaseUnits are set on a booking only if its
\* status is CONFIRMED: a write that sets one of them leaves the booking
\* CONFIRMED.
C12_EvidenceOnlyWhenConfirmed ==
    [][\A b \in DOMAIN bookings :
          Evidence(bookings'[b]) # Evidence(bookings[b])
          => bookings'[b].status = CONFIRMED]_vars

\* C13 (as claimed): every operation that changes a booking's status
\* appends exactly one ActivityLogEntry for that booking in the same atomic
\* unit as the status update.
C13_TransitionsAudited ==
    [][\A b \in DOMAIN bookings :
          bookings'[b].status # bookings[b].status
          => /\ Len(activityLog') = Len(activityLog) + 1
             /\ SubSeq(activityLog', 1, Len(activityLog)) = activityLog
             /\ activityLog'[Len(activityLog')].bookingId = b]_vars

\* C14 (as claimed): every verifyPayment run that loaded a PENDING booking
\* ends with the booking CONFIRMED with a payment_confirmed entry or FAILED
\* with a payment_failed entry, also when a store write fails, and it
\* returns normally only if the booking is CONFIRMED.
C14_DurableOutcome ==
    LET task == tasks[Caller]
        b == task.bookingId
    IN  (task.op = "verify" /\ task.pc = "done" /\ task.loaded = PENDING)
        => /\ \/ bookings[b].status = CONFIRMED /\ Count(b, "payment_confirmed") > 0
              \/ bookings[b].status = FAILED /\ Count(b, "payment_failed") > 0
           /\ task.result = "returned" => bookings[b].status = CONFIRMED

\* C15: the confirmation e-mail is sent only after the CONFIRMED commit is
\* persisted, and when it fails the booking stays CONFIRMED with its
\* evidence fields, no payment_failed entry is appended and verifyPayment
\* returns without error.
C15_NotificationBestEffort ==
    LET task == tasks[Caller]
        b == task.bookingId
    IN  /\ task.notify # NULL
              => /\ bookings[b].status = CONFIRMED
                 /\ Count(b, "payment_confirmed") = 1
                 /\ statusWrites[b][CONFIRMED] = 1
        /\ (task.pc = "done" /\ task.notify = "failed")
              => /\ task.result = "returned"
                 /\ task.error = NULL
                 /\ bookings[b].status = CONFIRMED
                 /\ Evidence(bookings[b]) =
                        {"chain", "blockNumber", "senderAddress",
                         "receiverAddress", "amountBaseUnits"}
                 /\ bookings[b].txHash = task.txHash
                 /\ Count(b, "payment_failed") = 0

\* a run has confirmed the booking and its confirmation e-mail has failed
C15_Witness ==
    /\ tasks[Caller].op = "verify"
    /\ tasks[Caller].pc = "done"
    /\ tasks[Caller].notify = "failed"
    /\ bookings["B1"].status = CONFIRMED

\* C16: when the receipt has status 0, verifyPayment goes to the FAILED
\* commit with the reverted error before any log is scanned: no run is at
\* the CONFIRMED commit on a reverted receipt, no booking is CONFIRMED from
\* one, and the run ends with the booking FAILED even if the receipt holds
\* a Transfer that would fully match.
C16_RevertedFailsFirst ==
    /\ \A t \in TaskIds :
          (/\ tasks[t].pc \in {"vfy_commit", "vfy_fail"}
           /\ tasks[t].provider = "ok"
           /\ ReceiptOf(tasks[t]).status = 0)
          => /\ tasks[t].pc = "vfy_fail"
             /\ tasks[t].error = ErrReverted
             /\ tasks[t].idx = 0
             /\ ~tasks[t].paymentFound
    /\ \A b \in DOMAIN bookings :
          bookings[b].status = CONFIRMED => ledger[bookings[b].txHash].status = 1
    /\ LET task == tasks[Caller]
           b == task.bookingId
       IN  (/\ RanOnPending(task)
            /\ task.provider = "ok"
            /\ ReceiptOf(task).status = 0)
           => /\ task.result = "threw"
              /\ task.error = ErrReverted
              /\ bookings[b].status = FAILED
              /\ LastEntry = Entry(b, "payment_failed", task.txHash, ErrReverted)

\* a run has failed a booking on a reverted receipt that holds a fully
\* matching Transfer
C16_Witness ==
    /\ RanOnPending(tasks[Caller])
    /\ tasks[Caller].error = ErrReverted
    /\ bookings["B1"].status = FAILED
    /\ ReceiptOf(tasks[Caller]) = Receipt(0, <<GoodLog>>)

\* C17 (as claimed): every verifyPayment run eventually terminates: when
\* the transaction never reaches 3 confirmations the wait ends by timeout
\* and the run does not stay blocked.
C17_BoundedWait ==
    \A t \in TaskIds : (tasks[t].pc = "vfy_chain") ~> (tasks[t].pc = "done")

\* row is PENDING with expiresAt earlier than time
IsExpired(row, time) ==
    /\ row.status = PENDING
    /\ row.expiresAt # NoTime
    /\ row.expiresAt < time

\* C18: a checkExpiredBookings run changes a booking only by moving one
\* that is PENDING with expiresAt earlier than now to EXPIRED together
\* with one booking_expired entry for it, and when it returns no booking is
\* left PENDING with expiresAt earlier than now; bookings that are not
\* PENDING or whose expiresAt is not in the past are left as they are.
C18_ExpiryCorrectness ==
    [][/\ (tasks[Caller].op = "sweep"
             /\ (bookings' # bookings \/ activityLog' # activityLog))
          => \E b \in DOMAIN bookings :
                /\ IsExpired(bookings[b], now)
                /\ bookings' = [bookings EXCEPT ![b].status = EXPIRED]
                /\ activityLog' = Append(activityLog,
                                     Entry(b, "booking_expired", NULL, NULL))
       /\ (/\ tasks'[Caller] # tasks[Caller]
           /\ tasks'[Caller].op = "sweep"
           /\ tasks'[Caller].pc = "done"
           /\ tasks'[Caller].result = "returned")
          => \A b \in DOMAIN bookings : ~IsExpired(bookings'[b], now')]_vars

\* a sweep has returned: it expired B2 and left B1, whose expiresAt is not
\* in the past, PENDING
C18_Witness ==
    /\ tasks[Caller].op = "sweep"
    /\ tasks[Caller].pc = "done"
    /\ tasks[Caller].result = "returned"
    /\ bookings["B2"].status = EXPIRED
    /\ Count("B2", "booking_expired") = 1
    /\ bookings["B1"].status = PENDING
    /\ bookings["B1"].expiresAt >= now
    /\ Count("B1", "booking_expired") = 0

\* C19 (as claimed): when the commit for one expired booking fails, the
\* sweep goes on: at the end of a run every other booking it found expired
\* has been moved to EXPIRED.
C19_SweepIsolation ==
    [][(/\ tasks[Caller].pc = "sw_commit"
        /\ tasks'[Caller].pc = "done")
       => \A i \in 2..Len(tasks[Caller].queue) :
             bookings'[tasks[Caller].queue[i]].status = EXPIRED]_vars

\* C20: retryFailedVerification raises an error and changes nothing, and
\* starts no verification, when the booking does not exist, when its
\* status is not FAILED, or when its txHash or chainId is missing.
C20_RetryGuard ==
    [][(/\ tasks[Caller].pc \in {"idle", "done"}
        /\ tasks'[Caller] # tasks[Caller]
        /\ tasks'[Caller].op = "retry")
       => LET row == FindUnique(tasks'[Caller].bookingId)
              refused == \/ row = NoRow
                         \/ row.status # FAILED
                         \/ row.txHash = NULL
                         \/ row.chainId = NoInt
          IN  /\ refused
                 => /\ tasks'[Caller].pc = "done"
                    /\ tasks'[Caller].result = "threw"
                    /\ tasks'[Caller].error =
                          (IF row = NoRow THEN ErrNotFound
                           ELSE IF row.status # FAILED THEN ErrNotFailed
                           ELSE ErrNoTxDetails)
                    /\ bookings' = bookings
                    /\ activityLog' = activityLog
                    /\ statusWrites' = statusWrites
              /\ ~refused => tasks'[Caller].pc = "rt_update"]_vars

\* a retry was refused for a FAILED booking that has no chainId stored
C20_Witness ==
    /\ tasks[Caller].op = "retry"
    /\ tasks[Caller].pc = "done"
    /\ tasks[Caller].error = ErrNoTxDetails
    /\ bookings["B1"].status = FAILED
    /\ bookings["B1"].chainId = NoInt

\* the transaction of a run is confirmed and matches: the provider gave
\* its receipt, the receipt's status is success, and the first Transfer of
\* the token contract to the treasury carries exactly the expected amount
ConfirmedAndMatches(task) ==
    LET b == task.bookingId
        logs == ReceiptOf(task).logs
        first == FirstTreasuryTransfer(logs, TokenOf(b, task.chainId))
    IN  /\ task.provider = "ok"
        /\ ReceiptOf(task).status = 1
        /\ first > 0
        /\ logs[first].value = ExpectedOf(b, task.chainId)

\* C21 (as claimed): retryFailedVerification on a FAILED booking with
\* stored txHash and chainId resets it to PENDING and runs verifyPayment
\* with exactly the stored txHash and chainId; when the run is over, the
\* booking is CONFIRMED and the call returned if the transaction is
\* confirmed and matches, and otherwise the booking is FAILED again and
\* the call threw verifyPayment's error.
C21_RetryOutcome ==
    /\ \A t \in TaskIds :
          (tasks[t].op = "retry" /\ tasks[t].pc = "vfy_load")
          => /\ tasks[t].txHash = "h1"
             /\ tasks[t].chainId = ARBITRUM
    /\ LET task == tasks[Caller]
       IN  (/\ task.op = "retry"
            /\ task.pc = "done"
            /\ task.loaded = PENDING)
           => IF ConfirmedAndMatches(task)
              THEN /\ bookings[task.bookingId].status = CONFIRMED
                   /\ task.result = "returned"
              ELSE /\ bookings[task.bookingId].status = FAILED
                   /\ task.result = "threw"
                   /\ task.error # NULL

\* the submission the handler accepts: the body's fields are present and
\* the booking exists, is PENDING, is not past expiresAt and has its
\* payment token and amount set
Acceptable(row, task, time) ==
    /\ task.bookingId # NULL /\ task.txHash # NULL /\ task.chainId # NoInt
    /\ row # NoRow
    /\ row.status = PENDING
    /\ ~(row.expiresAt # NoTime /\ row.expiresAt < time)
    /\ row.paymentToken # NULL /\ row.paymentAmount # NoInt

\* C22: the submit-payment handler starts verifyPayment only for a booking
\* that exists, is PENDING, is not past expiresAt and has token and amount
\* set, and only after it has saved txHash / chainId on the booking and
\* appended the payment_submitted entry; a rejected submission saves no
\* txHash, appends no entry and starts no verification.
C22_SubmissionGuard ==
    [][LET pre == tasks[Caller]
           post == tasks'[Caller]
           row == FindUnique(post.bookingId)
       IN  /\ (/\ pre.pc \in {"idle", "done"}
                /\ post # pre
                /\ post.op = "submit")
               => /\ bookings' = bookings
                  /\ activityLog' = activityLog
                  /\ IF Acceptable(row, post, now)
                     THEN post.pc = "sp_update"
                     ELSE /\ post.pc \in {"done", "sp_expire"}
                          /\ post.pc = "sp_expire" \/ post.response \in {400, 404, 409}
           /\ (pre.pc = "sp_expire")
               => /\ post.pc = "done"
                  /\ post.response \in {410, 500}
                  /\ activityLog' = activityLog
                  /\ \A b \in DOMAIN bookings :
                        /\ bookings'[b].txHash = bookings[b].txHash
                        /\ bookings'[b].chainId = bookings[b].chainId
           /\ (post.op = "submit" /\ pre.pc # "vfy_load" /\ post.pc = "vfy_load")
               => /\ pre.pc = "sp_log"
                  /\ Acceptable(row, post, now)
                  /\ row.txHash = post.txHash
                  /\ row.chainId = post.chainId
                  /\ bookings' = bookings
                  /\ activityLog' = Append(activityLog,
                         Entry(post.bookingId, "payment_submitted",
                               post.txHash, NULL))]_vars

\* a submission was accepted and its verification has started: the
\* booking is PENDING and holds the submitted txHash and chainId
C22_Witness ==
    /\ tasks[Caller].op = "submit"
    /\ tasks[Caller].pc = "vfy_load"
    /\ bookings["B1"].status = PENDING
    /\ bookings["B1"].txHash = tasks[Caller].txHash
    /\ bookings["B1"].chainId = ARBITRUM
    /\ LastEntry.action = "payment_submitted"

\* the payment intent fields of a booking
Intent(row) ==
    <<row.paymentToken, row.paymentAmount, row.chainId, row.expiresAt>>

\* C23 (as claimed): once the submit-payment handler has saved a txHash on
\* a booking, no later step of any operation (a second submission,
\* verifyPayment, checkExpiredBookings, retryFailedVerification) changes
\* the booking's paymentToken, paymentAmount, chainId or expiresAt.
C23_IntentImmutable ==
    [][\A b \in Bookings :
          bookings[b].txHash # NULL
          => Intent(bookings'[b]) = Intent(bookings[b])]_vars

\* C24: when a receipt holds several Transfers of the token contract to
\* the treasury and the first of them in receipt order carries exactly the
\* expected amount, a run of verifyPayment whose commit is persisted
\* confirms the booking from that first log: senderAddress is its from,
\* receiverAddress its to, amountBaseUnits its value, with one CONFIRMED
\* write and one payment_confirmed entry, whatever the later logs are.
C24_FirstMatchWins ==
    LET task == tasks[Caller]
        b == task.bookingId
        tokenInfo == TokenOf(b, task.chainId)
        logs == ReceiptOf(task).logs
        first == FirstTreasuryTransfer(logs, tokenInfo)
    IN  (/\ RanOnPending(task)
         /\ task.provider = "ok"
         /\ ReceiptOf(task).status = 1
         /\ TreasuryTransfers(logs, tokenInfo) > 1
         /\ logs[first].value = ExpectedOf(b, task.chainId))
        => /\ bookings[b].status = CONFIRMED
           /\ task.result = "returned"
           /\ bookings[b].txHash = task.txHash
           /\ bookings[b].senderAddress = logs[first].from
           /\ bookings[b].receiverAddress = logs[first].to
           /\ bookings[b].amountBaseUnits = logs[first].value
           /\ statusWrites[b][CONFIRMED] = 1
           /\ Count(b, "payment_confirmed") = 1
           /\ Count(b, "payment_failed") = 0

\* a run has confirmed the booking from the first of two treasury
\* Transfers; the second has another sender and is short of the amount
C24_Witness ==
    LET task == tasks[Caller]
        logs == ReceiptOf(task).logs
    IN  /\ RanOnPending(task)
        /\ bookings["B1"].status = CONFIRMED
        /\ Len(logs) = 2
        /\ TreasuryTransfers(logs, TokenOf("B1", task.chainId)) = 2
        /\ logs[1].from = Payer
        /\ logs[2].from = Stranger
        /\ logs[2].value # logs[1].value
        /\ bookings["B1"].senderAddress = Payer

\* C25: when the store write of the FAILED commit itself fails,
\* verifyPayment still raises the verification error that brought it to
\* the catch, not the store's error, and that run changes neither the
\* booking nor the activity log: the failing commit writes nothing, and
\* a step of a run that does write is the last step of that run.
C25_FailedCommitError ==
    [][LET pre == tasks[Caller]
           post == tasks'[Caller]
       IN  /\ (pre.pc = "vfy_fail" /\ post.storeFailed)
               => /\ post.pc = "done"
                  /\ post.result = "threw"
                  /\ post.error = pre.error
                  /\ post.error = FailureCause(pre)
                  /\ post.error # ErrStore
                  /\ post.loaded = PENDING
                  /\ bookings' = bookings
                  /\ bookings[pre.bookingId].status = PENDING
                  /\ activityLog' = activityLog
                  /\ statusWrites' = statusWrites
           /\ (/\ pre.pc \in {"vfy_load", "vfy_chain", "vfy_commit", "vfy_fail"}
               /\ (bookings' # bookings \/ activityLog' # activityLog))
               => post.pc = "done"]_vars

\* the FAILED commit of a run on a reverted transaction has failed: the
\* run threw the verification error and the booking is still PENDING with
\* no outcome entry
C25_Witness ==
    /\ tasks[Caller].op = "verify"
    /\ tasks[Caller].pc = "done"
    /\ tasks[Caller].storeFailed
    /\ tasks[Caller].result = "threw"
    /\ tasks[Caller].error = ErrReverted
    /\ bookings["B1"].status = PENDING
    /\ Count("B1", "payment_failed") = 0

\* C26: an accepted submit-payment request answers 200 'verifying' in the
\* step that starts its verification, without waiting for it: at that
\* moment the verification has written nothing and the booking is still
\* PENDING; the response is not changed by what the verification does
\* afterwards, whether it ends CONFIRMED or FAILED.
C26_FireAndForget ==
    [][LET pre == tasks[Caller]
           post == tasks'[Caller]
       IN  /\ (pre.pc = "sp_log" /\ post.pc # "done")
               => /\ post.pc = "vfy_load"
                  /\ post.response = 200
                  /\ bookings' = bookings
                  /\ statusWrites' = statusWrites
                  /\ bookings'[post.bookingId].status = PENDING
           /\ (/\ pre.op = "submit"
               /\ pre.pc \in {"vfy_load", "vfy_chain", "vfy_commit", "vfy_fail"})
               => /\ pre.response = 200
                  /\ post.response = 200]_vars

\* the verification an accepted submission started has failed the booking
\* after the request was answered 200
C26_Witness ==
    /\ tasks[Caller].op = "submit"
    /\ tasks[Caller].pc = "done"
    /\ tasks[Caller].response = 200
    /\ tasks[Caller].result = "threw"
    /\ bookings["B1"].status = FAILED

\* the decimals the registry is said to configure for a chain's tokens
ClaimedDecimals(chainId) == IF chainId = BSC THEN 18 ELSE 6

\* C27 (as claimed): the amount verifyPayment compares against is
\* paymentAmount scaled by 10^decimals of the (chainId, paymentToken) pair
\* (6 on chains 42161, 8453 and 5003, 18 on chain 56); the value a run is
\* about to store as amountBaseUnits of the CONFIRMED booking equals it,
\* and so does the amountBaseUnits that approval wrote on the booking.
C27_ExpectedAmountScaling ==
    /\ \A c \in SUPPORTED_CHAINS, token \in PaymentTokens :
          TokenInfo(c, token) # NoTokenInfo
          => TokenInfo(c, token).decimals = ClaimedDecimals(c)
    /\ \A t \in TaskIds :
          LET task == tasks[t]
              b == task.bookingId
          IN  /\ task.pc \in {"vfy_chain", "vfy_commit"}
                 => ExpectedAmount(task) =
                       ParseUnits(bookings[b].paymentAmount,
                                  ClaimedDecimals(task.chainId))
              /\ task.pc = "vfy_commit"
                 => ReceiptOf(task).logs[task.idx].value = ExpectedAmount(task)
              /\ (task.pc = "vfy_chain" /\ bookings[b].status = PENDING)
                 => bookings[b].amountBaseUnits = ExpectedAmount(task)

\* C28 (as claimed): no two distinct bookings are CONFIRMED with the same
\* txHash: a transaction that confirmed one booking never confirms a
\* second PENDING booking with the same token and amount.
C28_NoTransactionReuse ==
    \A b1, b2 \in DOMAIN bookings :
        (/\ b1 # b2
         /\ bookings[b1].status = CONFIRMED
         /\ bookings[b2].status = CONFIRMED)
        => bookings[b1].txHash # bookings[b2].txHash

\* C29 (as claimed): under every interleaving of submit-payment requests
\* with verifyPayment runs for one booking, the txHash stored on a
\* CONFIRMED booking is the txHash of its payment_confirmed entry, the
\* hash of the transaction whose receipt was matched.
C29_ConfirmedHashIsVerified ==
    \A b \in Bookings :
        bookings[b].status = CONFIRMED
        => \A i \in DOMAIN activityLog :
              (/\ activityLog[i].bookingId = b
               /\ activityLog[i].action = "payment_confirmed")
              => activityLog[i].txHash = bookings[b].txHash

\* an outcome entry of the run of task for its booking and transaction
OutcomeEntries(task) ==
    {Entry(task.bookingId, "payment_confirmed", task.txHash, NULL),
     Entry(task.bookingId, "payment_failed", task.txHash, task.error)}

\* C30: one run of verifyPayment appends at most one outcome entry,
\* whatever the receipt's logs and whichever store write or e-mail fails:
\* a step of a run appends nothing or exactly one payment_confirmed or
\* payment_failed entry of its booking, and a step that appends is the
\* last step of the run.
C30_OneOutcomePerRun ==
    [][\A t \in TaskIds :
          (/\ tasks[t].pc \in {"vfy_load", "vfy_chain", "vfy_commit", "vfy_fail"}
           /\ tasks'[t] # tasks[t])
          => \/ activityLog' = activityLog
             \/ /\ tasks'[t].pc = "done"
                /\ \E e \in OutcomeEntries(tasks[t]) :
                      activityLog' = Append(activityLog, e)]_vars

\* a run whose first CONFIRMED commit failed has gone on with the scan and
\* confirmed the booking from a later log, and the e-mail failed: one
\* payment_confirmed entry, no payment_failed entry
C30_Witness ==
    /\ tasks[Caller].op = "verify"
    /\ tasks[Caller].pc = "done"
    /\ tasks[Caller].storeFailed
    /\ tasks[Caller].notify = "failed"
    /\ bookings["B1"].status = CONFIRMED
    /\ Count("B1", "payment_confirmed") = 1
    /\ Count("B1", "payment_failed") = 0

====
